---- MODULE Spec2Model ----
(***************************************************************************)
(* Model of deebot_client/api_client.py: the ApiClient gateway with its    *)
(* three coroutines get_devices, get_product_iot_map and send_command, the *)
(* Authenticator and the transport (_InternalApiClient.post) being the     *)
(* environment.  Each coroutine is cut at its two await points.            *)
(***************************************************************************)
EXTENDS Integers, Sequences, FiniteSets, TLC

VARIABLES
    pc,        \* pc[c]: position of invocation c: "idle", "authenticate", "post", "done"
    op,        \* op[c]: the coroutine invocation c runs ("none" while idle)
    frame,     \* frame[c]: the bound local names of invocation c (a Python frame)
    sent,      \* sent[c]: the arguments the transport's post() received from c
    resp,      \* resp[c]: the decoded response post() gave back to c
    outcome,   \* outcome[c]: what the coroutine returned or raised
    collab,    \* collab[c]: the collaborator calls c has made, in order
    session,   \* the credentials snapshot the Authenticator currently hands out
    now        \* the wall clock read by datetime.now().timestamp()

vars == <<pc, op, frame, sent, resp, outcome, collab, session, now>>

-----------------------------------------------------------------------------
\* Bounds of the model.
MaxCalls == 2      \* concurrent invocations in SpecConc
MaxLen == 2        \* longest devices / data list in a response
MaxArgs == 1       \* longest command.args
MaxClock == 1      \* the clock stops ticking here

Calls == 1..MaxCalls

-----------------------------------------------------------------------------
\* Decoded JSON scalars, tagged with their Python type.
JInt(n) == [t |-> "int", n |-> n, s |-> ""]
JFloat(n) == [t |-> "float", n |-> n, s |-> ""]
JBool(b) == [t |-> "bool", n |-> IF b THEN 1 ELSE 0, s |-> ""]
JStr(s) == [t |-> "str", n |-> 0, s |-> s]
None == [t |-> "NoneType", n |-> 0, s |-> ""]

NumericTypes == {"int", "float", "bool"}

\* Python's ==  on these scalars: int, float and bool compare by number
\* (False == 0, 0.0 == 0), str by text, None only to None.
PyEq(a, b) ==
    IF a.t \in NumericTypes /\ b.t \in NumericTypes THEN a.n = b.n
    ELSE IF a.t = "str" /\ b.t = "str" THEN a.s = b.s
    ELSE a.t = "NoneType" /\ b.t = "NoneType"

\* x in [v1, v2, ...]
PyIn(x, list) == \E i \in 1..Len(list) : PyEq(x, list[i])

DigitStr(d) ==
    CASE d = 0 -> "0" [] d = 1 -> "1" [] d = 2 -> "2" [] d = 3 -> "3"
      [] d = 4 -> "4" [] d = 5 -> "5" [] d = 6 -> "6" [] d = 7 -> "7"
      [] d = 8 -> "8" [] d = 9 -> "9"

RECURSIVE NatStr(_)
NatStr(n) == IF n < 10 THEN DigitStr(n) ELSE NatStr(n \div 10) \o DigitStr(n % 10)

\* format(x) as an f-string field does it
PyStr(x) ==
    CASE x.t = "str" -> x.s
      [] x.t = "int" -> IF x.n < 0 THEN "-" \o NatStr(0 - x.n) ELSE NatStr(x.n)
      [] x.t = "float" -> (IF x.n < 0 THEN "-" \o NatStr(0 - x.n) ELSE NatStr(x.n)) \o ".0"
      [] x.t = "bool" -> IF x.n = 1 THEN "True" ELSE "False"
      [] x.t = "NoneType" -> "None"

\* d.get(k, None)
DictGet(d, k) == IF k \in DOMAIN d THEN d[k] ELSE None

\* d.update(e)
DictUpdate(d, e) == e @@ d

EmptyDict == <<>>

-----------------------------------------------------------------------------
\* Imported names (their values live outside api_client.py).
PATH_API_APPSVR_APP == "PATH_API_APPSVR_APP"
PATH_API_IOT_DEVMANAGER == "PATH_API_IOT_DEVMANAGER"
PATH_API_LG_LOG == "PATH_API_LG_LOG"
PATH_API_PIM_PRODUCT_IOT_MAP == "PATH_API_PIM_PRODUCT_IOT_MAP"
GetCleanLogs_name == "GetCleanLogs"

_REQUEST_HEADERS ==
    "User-Agent" :> "Dalvik/2.1.0 (Linux; U; Android 5.1.1; A5010 Build/LMY48Z)"

\* DeviceInfo(device): the device record read through did / resource / get_class.
DeviceInfo(device) ==
    [did |-> device["did"], resource |-> device["resource"], get_class |-> device["class"]]

-----------------------------------------------------------------------------
\* What a coroutine ends with.
Return(v) == [kind |-> "return", value |-> v]
Raise(exc, msg) == [kind |-> "raise", exc |-> exc, msg |-> msg]

\* resp['error'] / resp['errno'] inside the f-string: a missing key raises
\* KeyError before ApiError is constructed.
FailureOf(r, what) ==
    IF "error" \notin DOMAIN r THEN Raise("KeyError", "error")
    ELSE IF "errno" \notin DOMAIN r THEN Raise("KeyError", "errno")
    ELSE Raise("ApiError",
               "failure " \o PyStr(r["error"]) \o " (" \o PyStr(r["errno"]) \o ") on " \o what)

\* Variant: the comparison inverted.
IsSupported_ne(device) == ~PyEq(DictGet(device, "company"), JStr("eco-ng"))

\* device.get("company") == "eco-ng"
IsSupported(device) == PyEq(DictGet(device, "company"), JStr("eco-ng"))

\* devices.append(DeviceInfo(device)) for the supported ones, in iteration order
RECURSIVE DevicesLoop(_, _, _)
DevicesLoop(raw, i, devices) ==
    IF i > Len(raw) THEN devices
    ELSE DevicesLoop(raw, i + 1,
                     IF IsSupported(raw[i]) THEN Append(devices, DeviceInfo(raw[i]))
                     ELSE devices)

\* Variant: the product map's success test used for the device list.
GetDevicesSuccess_0000(r) == PyIn(DictGet(r, "code"), <<JInt(0), JStr("0000")>>)

\* resp.get("code", None) == 0
GetDevicesSuccess(r) == PyEq(DictGet(r, "code"), JInt(0))

\* get_devices after post() returned
GetDevicesResult(r) ==
    IF GetDevicesSuccess(r) THEN
        IF "devices" \in DOMAIN r THEN Return(DevicesLoop(r["devices"], 1, <<>>))
        ELSE Raise("KeyError", "devices")
    ELSE FailureOf(r, "getting devices")

\* result[entry["classid"]] = entry["product"], in iteration order
RECURSIVE ProductLoop(_, _, _)
ProductLoop(data, i, result) ==
    IF i > Len(data) THEN result
    ELSE ProductLoop(data, i + 1,
                     (data[i]["classid"] :> data[i]["product"]) @@ result)

\* Variant: the device list's success test used for the product map.
ProductIotMapSuccess_int(r) == PyEq(DictGet(r, "code"), JInt(0))

\* resp.get("code", None) in [0, "0000"]
ProductIotMapSuccess(r) == PyIn(DictGet(r, "code"), <<JInt(0), JStr("0000")>>)

\* get_product_iot_map after post() returned
ProductIotMapResult(r) ==
    IF ProductIotMapSuccess(r) THEN
        IF "data" \in DOMAIN r THEN Return(ProductLoop(r["data"], 1, EmptyDict))
        ELSE Raise("KeyError", "data")
    ELSE FailureOf(r, "getting product iot map")

\* Variant: send_command validating the response as the other two do.
SendCommandResult_validated(r) ==
    IF PyEq(DictGet(r, "code"), JInt(0)) THEN Return(r)
    ELSE FailureOf(r, "sending command")

\* send_command returns what post() returned
SendCommandResult(r) == Return(r)

-----------------------------------------------------------------------------
\* send_command, lines 87-122: everything built before authenticate() is awaited.

\* Variant: the branch also looking at the arguments.
IsLogRetrieval_noargs(command) ==
    command.name = GetCleanLogs_name /\ Len(command.args) = 0

\* command.name == GetCleanLogs.name
IsLogRetrieval(command) == command.name = GetCleanLogs_name

\* Variant: >= for >.
HasArgs_always(command) == Len(command.args) >= 0

\* len(command.args) > 0
HasArgs(command) == Len(command.args) > 0

\* Variant: one dict shared by the invocations (the latest holder's).
NewQueryParams_shared ==
    LET holders == {c \in Calls : "query_params" \in DOMAIN frame[c]}
    IN  IF holders = {} THEN EmptyDict
        ELSE frame[CHOOSE c \in holders : \A d \in holders : d <= c]["query_params"]

\* query_params = {}
NewQueryParams == EmptyDict

\* payload = {"header": {...}}, plus "body" when the command has arguments
Payload(command, ts) ==
    LET header == [pri |-> "1", ts |-> ts, tzm |-> 480, ver |-> "0.0.50"]
    IN  IF HasArgs(command)
        THEN [header |-> header, body |-> [data |-> command.args]]
        ELSE [header |-> header]

LogJson(command, device_info) ==
    [td |-> command.name, did |-> device_info.did, resource |-> device_info.resource]

CommandJson(command, device_info, ts) ==
    [cmdName |-> command.name,
     payload |-> Payload(command, ts),
     payloadType |-> "j",
     td |-> "q",
     toId |-> device_info.did,
     toRes |-> device_info.resource,
     toType |-> device_info.get_class]

\* The frame of send_command when it reaches `await authenticate()`.
SendCommandFrame(command, device_info, ts) ==
    LET args == [command |-> command, device_info |-> device_info]
    IN  IF IsLogRetrieval(command)
        THEN args @@ [query_params |-> NewQueryParams,
                      json |-> LogJson(command, device_info),
                      path |-> PATH_API_LG_LOG]
        ELSE LET json == CommandJson(command, device_info, ts)
             IN  args @@ [payload |-> json.payload,
                          json |-> json,
                          path |-> PATH_API_IOT_DEVMANAGER,
                          query_params |->
                              DictUpdate(NewQueryParams,
                                         [mid |-> json.toType, did |-> json.toId])]

\* Variant: u read from the wrong field of the credentials.
CredentialParams_token(json, credentials) ==
    [td |-> json.td, u |-> credentials.token, cv |-> "1.67.3", t |-> "a", av |-> "1.3.1"]

\* Variant: td hard-wired to the generic branch's value.
CredentialParams_q(json, credentials) ==
    [td |-> "q", u |-> credentials.user_id, cv |-> "1.67.3", t |-> "a", av |-> "1.3.1"]

\* the dict of lines 126-132
CredentialParams(json, credentials) ==
    [td |-> json.td, u |-> credentials.user_id, cv |-> "1.67.3", t |-> "a", av |-> "1.3.1"]

\* the post() call of lines 135-141
SendCommandPost(f, credentials) ==
    [path |-> f["path"],
     json |-> f["json"],
     query_params |-> DictUpdate(f["query_params"], CredentialParams(f["json"], credentials)),
     headers |-> _REQUEST_HEADERS,
     credentials |-> credentials]

\* Variant: the two values swapped.
GetDevicesJson_todo(credentials) == [userid |-> "GetGlobalDeviceList", todo |-> credentials.user_id]

\* the dict of lines 44-47
GetDevicesJson(credentials) == [userid |-> credentials.user_id, todo |-> "GetGlobalDeviceList"]

\* the post() call of lines 48-50
GetDevicesPost(credentials) ==
    [path |-> PATH_API_APPSVR_APP, json |-> GetDevicesJson(credentials),
     credentials |-> credentials]

\* the post() call of lines 65-69
ProductIotMapPost(json, credentials) ==
    [path |-> PATH_API_PIM_PRODUCT_IOT_MAP, json |-> json, credentials |-> credentials]

-----------------------------------------------------------------------------
\* Inputs.
BoundedSeq(S, n) == UNION {[1..k -> S] : k \in 0..n}

Credentials == {[user_id |-> "u1", token |-> "t1"], [user_id |-> "u2", token |-> "t2"]}

RawDevices ==
    {[did |-> "d1", resource |-> "r1", class |-> "c1", company |-> JStr("eco-ng")],
     [did |-> "d2", resource |-> "r2", class |-> "c2", company |-> JStr("other")],
     [did |-> "d3", resource |-> "r3", class |-> "c3"],
     [did |-> "d4", resource |-> "r4", class |-> "c1", company |-> JStr("eco-ng")]}

DeviceInfos == {DeviceInfo(d) : d \in {r \in RawDevices : IsSupported(r)}}

CommandNames == {GetCleanLogs_name, "playSound", "charge"}
Commands == [name : CommandNames, args : BoundedSeq({"x", "y"}, MaxArgs)]
LeanCommands == {[name |-> GetCleanLogs_name, args |-> <<>>],
                 [name |-> "playSound", args |-> <<"x">>],
                 [name |-> "charge", args |-> <<>>]}

CodeValues == {JInt(0), JInt(1), JStr("0000"), JBool(FALSE), JFloat(0), None}

Opt(k, V) == {EmptyDict} \cup {k :> v : v \in V}

\* The status part of a response: code, error, errno, each present or not.
Status ==
    {c @@ e @@ n : c \in Opt("code", CodeValues),
                   e \in Opt("error", {JStr("bad")}),
                   n \in Opt("errno", {JInt(500)})}

ProductEntries == [classid : {"c1", "c2"}, product : {"p1", "p2"}]

DeviceResponses == {s @@ ("devices" :> ds) : s \in Status, ds \in BoundedSeq(RawDevices, MaxLen)}
ProductResponses == {s @@ ("data" :> d) : s \in Status, d \in BoundedSeq(ProductEntries, MaxLen)}
CommandResponses == {s @@ ("ret" :> r) : s \in Status, r \in {"ok", "fail"}}

Ok == "code" :> JInt(0)
Failed == [code |-> JInt(1), error |-> JStr("bad"), errno |-> JInt(500)]
D1 == CHOOSE d \in RawDevices : d["did"] = "d1"
D2 == CHOOSE d \in RawDevices : d["did"] = "d2"

LeanDeviceResponses == {Ok @@ ("devices" :> <<D1, D2>>), Failed @@ ("devices" :> <<>>)}
LeanProductResponses ==
    {("code" :> JStr("0000")) @@ ("data" :> <<[classid |-> "c1", product |-> "p1"]>>),
     Failed @@ ("data" :> <<>>)}
LeanCommandResponses == {Ok @@ ("ret" :> "ok"), Failed @@ ("ret" :> "fail")}
LeanDeviceInfos == {DeviceInfo(D1)}

-----------------------------------------------------------------------------
Init ==
    /\ pc = [c \in Calls |-> "idle"]
    /\ op = [c \in Calls |-> "none"]
    /\ frame = [c \in Calls |-> EmptyDict]
    /\ sent = [c \in Calls |-> EmptyDict]
    /\ resp = [c \in Calls |-> EmptyDict]
    /\ outcome = [c \in Calls |-> EmptyDict]
    /\ collab = [c \in Calls |-> <<>>]
    /\ session \in Credentials
    /\ now = 0

\* The caller invokes a coroutine; it runs up to its first await.
Invoke(c, name, f) ==
    /\ pc[c] = "idle"
    /\ pc' = [pc EXCEPT ![c] = "authenticate"]
    /\ op' = [op EXCEPT ![c] = name]
    /\ frame' = [frame EXCEPT ![c] = f]
    /\ collab' = [collab EXCEPT ![c] = Append(@, "authenticate")]
    /\ UNCHANGED <<sent, resp, outcome, session, now>>

\* authenticate() returned the current snapshot; the coroutine runs up to post().
Authenticated(c, name, f, request) ==
    /\ pc[c] = "authenticate"
    /\ op[c] = name
    /\ pc' = [pc EXCEPT ![c] = "post"]
    /\ frame' = [frame EXCEPT ![c] = f]
    /\ sent' = [sent EXCEPT ![c] = request]
    /\ collab' = [collab EXCEPT ![c] = Append(@, "post")]
    /\ UNCHANGED <<op, resp, outcome, session, now>>

\* post() returned r; the coroutine runs to its end.
Posted(c, name, r, result) ==
    /\ pc[c] = "post"
    /\ op[c] = name
    /\ pc' = [pc EXCEPT ![c] = "done"]
    /\ resp' = [resp EXCEPT ![c] = r]
    /\ outcome' = [outcome EXCEPT ![c] = result]
    /\ frame' = [frame EXCEPT ![c] = ("resp" :> r) @@ @]
    /\ UNCHANGED <<op, sent, collab, session, now>>

\* Variant: the body built from the current snapshot before authenticate().
GetDevicesCall_eager(c) == Invoke(c, "get_devices", [json |-> GetDevicesJson(session)])

\* get_devices, line 43: nothing is built before authenticate() is awaited
GetDevicesCall(c) == Invoke(c, "get_devices", EmptyDict)

\* get_devices, lines 43-50
GetDevicesAuthenticated(c) ==
    Authenticated(c, "get_devices",
                  [credentials |-> session, json |-> GetDevicesJson(session)],
                  GetDevicesPost(session))

\* get_devices, lines 52-61
GetDevicesPosted(c, r) == Posted(c, "get_devices", r, GetDevicesResult(r))

\* get_product_iot_map, lines 65-68: the arguments PATH and {} are evaluated,
\* left to right, before authenticate() is awaited for the keyword argument
ProductIotMapCall(c) ==
    Invoke(c, "get_product_iot_map",
           [path |-> PATH_API_PIM_PRODUCT_IOT_MAP, json |-> EmptyDict])

\* get_product_iot_map, lines 65-69
ProductIotMapAuthenticated(c) ==
    Authenticated(c, "get_product_iot_map",
                  ("credentials" :> session) @@ frame[c],
                  ProductIotMapPost(frame[c]["json"], session))

\* get_product_iot_map, lines 71-79
ProductIotMapPosted(c, r) == Posted(c, "get_product_iot_map", r, ProductIotMapResult(r))

\* send_command, lines 87-124
SendCommandCall(c, command, device_info) ==
    Invoke(c, "send_command", SendCommandFrame(command, device_info, now))

\* send_command, lines 124-141
SendCommandAuthenticated(c) ==
    LET request == SendCommandPost(frame[c], session)
    IN  Authenticated(c, "send_command",
                      [credentials |-> session, query_params |-> request.query_params]
                          @@ frame[c],
                      request)

\* send_command, line 135: the return of what post() gave
SendCommandPosted(c, r) == Posted(c, "send_command", r, SendCommandResult(r))

\* The Authenticator replaces its snapshot (login, token refresh).  Once every
\* invocation in `callers` has ended nobody reads the snapshot any more.
Refresh(callers, creds) ==
    /\ \E c \in callers : pc[c] # "done"
    /\ creds # session
    /\ session' = creds
    /\ UNCHANGED <<pc, op, frame, sent, resp, outcome, collab, now>>

\* Time passes.  Once every invocation in `callers` has ended nobody reads
\* the clock any more.
Tick(callers) ==
    /\ \E c \in callers : pc[c] # "done"
    /\ now < MaxClock
    /\ now' = now + 1
    /\ UNCHANGED <<pc, op, frame, sent, resp, outcome, collab, session>>

\* One invocation at a time, every input.
Next ==
    \/ GetDevicesCall(1)
    \/ GetDevicesAuthenticated(1)
    \/ \E r \in DeviceResponses : GetDevicesPosted(1, r)
    \/ ProductIotMapCall(1)
    \/ ProductIotMapAuthenticated(1)
    \/ \E r \in ProductResponses : ProductIotMapPosted(1, r)
    \/ \E command \in Commands, device_info \in DeviceInfos :
           SendCommandCall(1, command, device_info)
    \/ SendCommandAuthenticated(1)
    \/ \E r \in CommandResponses : SendCommandPosted(1, r)
    \/ \E creds \in Credentials : Refresh({1}, creds)
    \/ Tick({1})

Spec == Init /\ [][Next]_vars

\* Concurrent invocations, interleaved at their await points.
NextConc ==
    \/ \E c \in Calls : GetDevicesCall(c)
    \/ \E c \in Calls : GetDevicesAuthenticated(c)
    \/ \E c \in Calls, r \in LeanDeviceResponses : GetDevicesPosted(c, r)
    \/ \E c \in Calls : ProductIotMapCall(c)
    \/ \E c \in Calls : ProductIotMapAuthenticated(c)
    \/ \E c \in Calls, r \in LeanProductResponses : ProductIotMapPosted(c, r)
    \/ \E c \in Calls, command \in LeanCommands, device_info \in LeanDeviceInfos :
           SendCommandCall(c, command, device_info)
    \/ \E c \in Calls : SendCommandAuthenticated(c)
    \/ \E c \in Calls, r \in LeanCommandResponses : SendCommandPosted(c, r)
    \/ \E creds \in Credentials : Refresh(Calls, creds)
    \/ Tick(Calls)

SpecConc == Init /\ [][NextConc]_vars

-----------------------------------------------------------------------------
\* Properties.

Ended(c, name) == pc[c] = "done" /\ op[c] = name
HasSent(c, name) == pc[c] \in {"post", "done"} /\ op[c] = name
Has(d, k) == k \in DOMAIN d

\* The response's code field is there and compares equal to 0 (as 0, 0.0 and
\* False do in Python).
CodeIsZero(r) == Has(r, "code") /\ r["code"].t \in NumericTypes /\ r["code"].n = 0
CodeIs0000(r) == Has(r, "code") /\ r["code"] = JStr("0000")

EcoNg(d) == Has(d, "company") /\ d["company"] = JStr("eco-ng")

Kept(raw) ==
    LET kept == SelectSeq(raw, EcoNg)
    IN  [i \in 1..Len(kept) |->
            [did |-> kept[i]["did"], resource |-> kept[i]["resource"],
             get_class |-> kept[i]["class"]]]

\* C1: when the device-list response has code == 0, get_devices returns the
\* entries of resp['devices'] whose company is "eco-ng", each as a DeviceInfo,
\* in the order of the response; every other entry is left out and none is
\* added, repeated or moved.
C1_OnlyEcoNgInOrder ==
    \A c \in Calls :
        Ended(c, "get_devices") /\ CodeIsZero(resp[c]) =>
            /\ outcome[c].kind = "return"
            /\ outcome[c].value = Kept(resp[c]["devices"])

C1_Witness ==
    \E c \in Calls :
        /\ Ended(c, "get_devices") /\ CodeIsZero(resp[c])
        /\ Len(resp[c]["devices"]) = 2
        /\ EcoNg(resp[c]["devices"][2]) /\ ~EcoNg(resp[c]["devices"][1])
        /\ ~Has(resp[c]["devices"][1], "company")
        /\ Len(outcome[c].value) = 1

Rejection(r, what) ==
    [kind |-> "raise", exc |-> "ApiError",
     msg |-> "failure " \o PyStr(r["error"]) \o " (" \o PyStr(r["errno"]) \o ") on " \o what]

\* C2 as stated: get_product_iot_map accepts code 0 and "0000" and answers
\* every other code, also a missing one, with an ApiError.
C2_RejectsWithApiError ==
    \A c \in Calls :
        Ended(c, "get_product_iot_map") =>
            IF CodeIsZero(resp[c]) \/ CodeIs0000(resp[c])
            THEN outcome[c].kind = "return"
            ELSE outcome[c].kind = "raise" /\ outcome[c].exc = "ApiError"

\* C2: get_product_iot_map accepts code 0 and "0000" and rejects every other
\* code, also a missing one, returning no mapping; the rejection is an ApiError
\* naming error and errno when the response has both, and the KeyError of the
\* missing field otherwise.
C2_AcceptsBothRejectsRest ==
    \A c \in Calls :
        Ended(c, "get_product_iot_map") =>
            IF CodeIsZero(resp[c]) \/ CodeIs0000(resp[c])
            THEN outcome[c].kind = "return"
            ELSE /\ outcome[c].kind = "raise"
                 /\ IF Has(resp[c], "error") /\ Has(resp[c], "errno")
                    THEN outcome[c] = Rejection(resp[c], "getting product iot map")
                    ELSE outcome[c].exc = "KeyError"

C2_Witness ==
    \E c \in Calls :
        /\ Ended(c, "get_product_iot_map")
        /\ ~Has(resp[c], "code") /\ Has(resp[c], "error") /\ ~Has(resp[c], "errno")
        /\ Len(resp[c]["data"]) > 0
        /\ outcome[c].kind = "raise" /\ outcome[c].exc = "KeyError"

\* C3: get_devices returns a list exactly when the response's code equals 0;
\* on any other code (the string "0000", a missing code), with error and errno
\* in the response, it raises ApiError "failure {error} ({errno}) on getting
\* devices" and returns nothing.
C3_SuccessIffCodeZero ==
    \A c \in Calls :
        Ended(c, "get_devices") =>
            /\ outcome[c].kind = "return" <=> CodeIsZero(resp[c])
            /\ ~CodeIsZero(resp[c]) /\ Has(resp[c], "error") /\ Has(resp[c], "errno") =>
                   /\ outcome[c] = Rejection(resp[c], "getting devices")
                   /\ resp[c]["error"] = JStr("bad") /\ resp[c]["errno"] = JInt(500) =>
                          outcome[c].msg = "failure bad (500) on getting devices"

C3_Witness ==
    \E c \in Calls :
        /\ Ended(c, "get_devices")
        /\ CodeIs0000(resp[c]) /\ Has(resp[c], "error") /\ Has(resp[c], "errno")
        /\ Len(resp[c]["devices"]) > 0 /\ EcoNg(resp[c]["devices"][1])
        /\ outcome[c].kind = "raise" /\ outcome[c].exc = "ApiError"

\* C4: send_command validates nothing: whatever code, error and errno the
\* transport's response has or lacks, it returns that response unchanged and
\* raises no ApiError.
C4_RawResponse ==
    \A c \in Calls :
        Ended(c, "send_command") =>
            outcome[c].kind = "return" /\ outcome[c].value = resp[c]

C4_Witness ==
    \E c \in Calls :
        /\ Ended(c, "send_command")
        /\ Has(resp[c], "code") /\ resp[c]["code"] = JInt(1) /\ ~Has(resp[c], "error")
        /\ outcome[c].value = resp[c]

LogShape(c) ==
    LET command == frame[c]["command"]
        device == frame[c]["device_info"]
    IN  /\ DOMAIN sent[c].json = {"td", "did", "resource"}
        /\ sent[c].json.td = command.name
        /\ sent[c].json.did = device.did
        /\ sent[c].json.resource = device.resource
        /\ sent[c].path = PATH_API_LG_LOG

GenericShape(c) ==
    LET command == frame[c]["command"]
        device == frame[c]["device_info"]
    IN  /\ {"cmdName", "payloadType", "td", "toId", "toRes", "toType", "payload"}
               \subseteq DOMAIN sent[c].json
        /\ sent[c].json.cmdName = command.name
        /\ sent[c].json.payloadType = "j"
        /\ sent[c].json.td = "q"
        /\ sent[c].json.toId = device.did
        /\ sent[c].json.toRes = device.resource
        /\ sent[c].json.toType = device.get_class
        /\ Has(sent[c].json.payload, "header")
        /\ sent[c].path = PATH_API_IOT_DEVMANAGER

\* C5: the request send_command posts has the log shape (body {td, did,
\* resource}, log-service path) exactly when command.name is the log-retrieval
\* name, whatever the arguments and the device, and the generic shape (cmdName,
\* payloadType "j", td "q", toId, toRes, toType, payload.header, device-manager
\* path) for every other name; never both.
C5_ShapeByNameOnly ==
    \A c \in Calls :
        HasSent(c, "send_command") =>
            IF frame[c]["command"].name = GetCleanLogs_name
            THEN LogShape(c) /\ ~GenericShape(c)
            ELSE GenericShape(c) /\ ~LogShape(c)

C5_Witness ==
    \E c \in Calls :
        /\ HasSent(c, "send_command")
        /\ frame[c]["command"].name = GetCleanLogs_name
        /\ Len(frame[c]["command"].args) > 0
        /\ LogShape(c)

\* C6: in a generic command's envelope, payload has the key body exactly when
\* command.args is not empty, and then payload.body.data is command.args.
C6_BodyIffArgs ==
    \A c \in Calls :
        HasSent(c, "send_command") /\ frame[c]["command"].name # GetCleanLogs_name =>
            LET payload == sent[c].json.payload
                args == frame[c]["command"].args
            IN  /\ Has(payload, "body") <=> Len(args) > 0
                /\ Has(payload, "body") => payload.body = [data |-> args]

C6_Witness ==
    \E c \in Calls :
        /\ HasSent(c, "send_command")
        /\ frame[c]["command"].name # GetCleanLogs_name
        /\ frame[c]["command"].args = <<>>
        /\ DOMAIN sent[c].json.payload = {"header"}

\* C7: the query parameters send_command posts are u = the credentials' user
\* id, cv = "1.67.3", t = "a", av = "1.3.1" and td = the body's td; a generic
\* command adds mid = the device class and did = the device id, log retrieval
\* has neither key.
C7_QueryParams ==
    \A c \in Calls :
        HasSent(c, "send_command") =>
            LET q == sent[c].query_params
                device == frame[c]["device_info"]
                isLog == frame[c]["command"].name = GetCleanLogs_name
            IN  /\ q["u"] = sent[c].credentials.user_id
                /\ q["cv"] = "1.67.3" /\ q["t"] = "a" /\ q["av"] = "1.3.1"
                /\ q["td"] = sent[c].json.td
                /\ q["td"] = IF isLog THEN frame[c]["command"].name ELSE "q"
                /\ IF isLog
                   THEN DOMAIN q = {"td", "u", "cv", "t", "av"}
                   ELSE /\ DOMAIN q = {"mid", "did", "td", "u", "cv", "t", "av"}
                        /\ q["mid"] = device.get_class
                        /\ q["did"] = device.did

C7_Witness ==
    \E c \in Calls :
        /\ HasSent(c, "send_command")
        /\ frame[c]["command"].name = GetCleanLogs_name
        /\ DOMAIN sent[c].query_params = {"td", "u", "cv", "t", "av"}
        /\ sent[c].query_params["td"] = GetCleanLogs_name
        /\ sent[c].credentials.user_id = "u2"

\* C8 as stated: in each of the three operations no part of the request is
\* built before authenticate() has returned the credentials.
C8_NothingBuiltBeforeCredentials ==
    \A c \in Calls :
        ~Has(frame[c], "credentials") =>
            ~Has(frame[c], "json") /\ ~Has(frame[c], "path") /\ ~Has(frame[c], "query_params")

\* C8: in each of the three operations authenticate() is awaited once and has
\* returned before post() is invoked, and the credentials posted are the ones
\* it returned.  get_devices builds nothing before that.  send_command has
\* built its body (ts included), its path and the mid / did parameters before
\* it awaits authenticate(), and adds only td, u, cv, t, av afterwards;
\* get_product_iot_map has its empty body before it awaits authenticate().
C8_OrderOfSteps ==
    \A c \in Calls :
        /\ collab[c] = CASE pc[c] = "idle" -> <<>>
                         [] pc[c] = "authenticate" -> <<"authenticate">>
                         [] OTHER -> <<"authenticate", "post">>
        /\ DOMAIN sent[c] # {} =>
               /\ pc[c] \in {"post", "done"}
               /\ Has(frame[c], "credentials")
               /\ sent[c].credentials = frame[c]["credentials"]
        /\ pc[c] = "authenticate" =>
               /\ DOMAIN sent[c] = {}
               /\ ~Has(frame[c], "credentials")
               /\ op[c] = "get_devices" => DOMAIN frame[c] = {}
               /\ op[c] = "get_product_iot_map" =>
                      Has(frame[c], "json") /\ DOMAIN frame[c]["json"] = {}
               /\ op[c] = "send_command" =>
                      /\ Has(frame[c], "json") /\ Has(frame[c], "path")
                      /\ IF frame[c]["command"].name = GetCleanLogs_name
                         THEN DOMAIN frame[c]["query_params"] = {}
                         ELSE /\ DOMAIN frame[c]["query_params"] = {"mid", "did"}
                              /\ frame[c]["json"].payload.header.ts <= now
        /\ HasSent(c, "send_command") =>
               DOMAIN sent[c].query_params \ DOMAIN sent[c].json =
                   {"u", "cv", "t", "av"} \cup
                   (IF frame[c]["command"].name = GetCleanLogs_name THEN {} ELSE {"mid", "did"})

C8_Witness ==
    \E c \in Calls :
        /\ pc[c] = "authenticate" /\ op[c] = "send_command"
        /\ frame[c]["command"].name # GetCleanLogs_name
        /\ frame[c]["json"].payload.header.ts < now
        /\ ~Has(frame[c], "credentials")

LastProduct(data, classid) ==
    LET last == CHOOSE i \in 1..Len(data) :
                    /\ data[i].classid = classid
                    /\ \A j \in (i + 1)..Len(data) : data[j].classid # classid
    IN  data[last].product

\* The request invocation c is to send, from its own arguments and credentials.
OwnRequest(c) ==
    LET credentials == frame[c]["credentials"]
    IN  CASE op[c] = "get_devices" ->
                 [path |-> PATH_API_APPSVR_APP,
                  json |-> [userid |-> credentials.user_id, todo |-> "GetGlobalDeviceList"],
                  credentials |-> credentials]
          [] op[c] = "get_product_iot_map" ->
                 [path |-> PATH_API_PIM_PRODUCT_IOT_MAP, json |-> <<>>,
                  credentials |-> credentials]
          [] op[c] = "send_command" ->
                 LET command == frame[c]["command"]
                     device == frame[c]["device_info"]
                     fixed == [u |-> credentials.user_id, cv |-> "1.67.3", t |-> "a",
                               av |-> "1.3.1"]
                 IN  IF command.name = GetCleanLogs_name
                     THEN [path |-> PATH_API_LG_LOG,
                           json |-> [td |-> command.name, did |-> device.did,
                                     resource |-> device.resource],
                           query_params |-> fixed @@ [td |-> command.name],
                           headers |-> _REQUEST_HEADERS,
                           credentials |-> credentials]
                     ELSE LET header == [pri |-> "1", tzm |-> 480, ver |-> "0.0.50",
                                         ts |-> sent[c].json.payload.header.ts]
                          IN  [path |-> PATH_API_IOT_DEVMANAGER,
                               json |-> [cmdName |-> command.name, payloadType |-> "j",
                                         td |-> "q", toId |-> device.did,
                                         toRes |-> device.resource,
                                         toType |-> device.get_class,
                                         payload |->
                                             IF command.args = <<>>
                                             THEN [header |-> header]
                                             ELSE [header |-> header,
                                                   body |-> [data |-> command.args]]],
                               query_params |->
                                   fixed @@ [td |-> "q", mid |-> device.get_class,
                                             did |-> device.did],
                               headers |-> _REQUEST_HEADERS,
                               credentials |-> credentials]

\* What invocation c is to end with, from its own response.
OwnOutcome(c) ==
    LET r == resp[c]
    IN  CASE op[c] = "get_devices" ->
                 IF CodeIsZero(r) THEN [kind |-> "return", value |-> Kept(r["devices"])]
                 ELSE Rejection(r, "getting devices")
          [] op[c] = "get_product_iot_map" ->
                 IF CodeIsZero(r) \/ CodeIs0000(r)
                 THEN [kind |-> "return",
                       value |-> [k \in {r["data"][i].classid : i \in 1..Len(r["data"])} |->
                                     LastProduct(r["data"], k)]]
                 ELSE Rejection(r, "getting product iot map")
          [] op[c] = "send_command" -> [kind |-> "return", value |-> r]

\* C9: under every interleaving of the invocations at their await points, each
\* invocation calls authenticate once and then post once, the request it posts
\* is the one its own command, device, credentials and timestamp give, and what
\* it returns or raises is what its own response gives.
C9_Independent ==
    \A c \in Calls :
        /\ collab[c] = CASE pc[c] = "idle" -> <<>>
                         [] pc[c] = "authenticate" -> <<"authenticate">>
                         [] OTHER -> <<"authenticate", "post">>
        /\ pc[c] \in {"post", "done"} => sent[c] = OwnRequest(c)
        /\ pc[c] = "done" => outcome[c] = OwnOutcome(c)

C9_Witness ==
    \E c, d \in Calls :
        /\ c # d
        /\ pc[c] = "post" /\ op[c] = "send_command"
        /\ frame[c]["command"].name = GetCleanLogs_name
        /\ pc[d] = "done" /\ op[d] = "send_command"
        /\ frame[d]["command"].name # GetCleanLogs_name
        /\ collab[d][1] = "authenticate"
        /\ sent[c].credentials # sent[d].credentials
        /\ DOMAIN sent[c].query_params = {"td", "u", "cv", "t", "av"}

\* C10: the user id an invocation puts in its request (userid in get_devices'
\* body, u in send_command's query parameters) is the user id of the
\* credentials snapshot it passes to that same post(), whatever snapshot the
\* Authenticator hands to other invocations meanwhile.
C10_UserIdOfPostedCredentials ==
    \A c \in Calls :
        /\ HasSent(c, "get_devices") => sent[c].json.userid = sent[c].credentials.user_id
        /\ HasSent(c, "send_command") =>
               sent[c].query_params["u"] = sent[c].credentials.user_id

C10_Witness ==
    \E c, d \in Calls :
        /\ pc[c] = "post" /\ op[c] = "get_devices"
        /\ pc[d] = "post" /\ op[d] = "send_command"
        /\ sent[c].credentials.user_id # sent[d].credentials.user_id
        /\ sent[c].credentials # session
        /\ sent[c].json.userid = "u1"
        /\ sent[d].query_params["u"] = "u2"

====
